---- MODULE Spec2Model ----
(***************************************************************************)
(* Dataset acquisition and cache manager of corgi (src/lib/db/utils.ts):   *)
(* getDatabasePath, copyFile, decompressDatabase,                          *)
(* downloadAndPrepareDatabase and downloadFile, as a state machine over    *)
(* the filesystem, the module-level downloadInProgress marker and the      *)
(* calls in progress.                                                      *)
(*                                                                         *)
(* Granularity is the JavaScript event loop: one action is one task (a     *)
(* call's synchronous prefix, an I/O completion, a network event) together *)
(* with the promise continuations it runs to completion.  The only         *)
(* continuations kept as steps of their own are the callers awaiting       *)
(* downloadInProgress; while one of them is queued (Draining) no other     *)
(* task runs, as the microtask queue is emptied before the next task.      *)
(***************************************************************************)
EXTENDS Integers, FiniteSets, Sequences, TLC

\* ------------------------------------------------------------------ bounds

\* Number of getDatabasePath calls issued in one behaviour.
NumCalls == 3

Calls == 1..NumCalls

\* ------------------------------------------------------ program constants

\* downloadFile.doRequest: "if (redirectCount > 5)".
MaxRedirects == 5

\* getUncompressedDbPaths pushes 3 candidates, getCompressedDbPaths 5.
NumUncompressedPaths == 3
NumCompressedPaths == 5

CACHE_DB_PATH == "~/.corgi-cache/vpic.lite.db"

\* downloadInProgress = null
NULL == 0

DEFAULT_DB_DOWNLOAD_URL ==
    "https://github.com/cardog-ai/corgi/releases/latest/download/vpic.lite.db.gz"

\* An environment variable that is not set (undefined, the case of "??").
UNSET == "<unset>"

\* Values of CORGI_DB_URL and CORGI_DATABASE_URL; the process environment does
\* not change during a behaviour.  "not a url" is a value request() cannot
\* parse.
UrlEnvs ==
    {[dbUrl |-> UNSET, databaseUrl |-> UNSET],
     [dbUrl |-> UNSET, databaseUrl |-> "not a url"],
     [dbUrl |-> "https://mirror.example/vpic.lite.db.gz",
      databaseUrl |-> "https://alt.example/vpic.lite.db.gz"]}

\* Responses of the download server: status code and Location header, which
\* is absent ("none"), a URL the next request can be made to ("ok"), or a URL
\* that request() of the https module refuses, such as an http: URL ("bad").
Responses ==
    {[status |-> 200, location |-> "none"],
     [status |-> 302, location |-> "ok"],
     [status |-> 302, location |-> "bad"],
     [status |-> 304, location |-> "none"],
     [status |-> 404, location |-> "ok"]}

NoResponse == [status |-> 0, location |-> "none"]

\* options.databasePath: "" stands for an absent or empty (falsy) value.
Paths == {"", "/data/custom.db"}

\* Local candidate files present on this machine (indices into the candidate
\* lists); the files do not change during a behaviour.
UncompressedEnvs == {S \in SUBSET (1..NumUncompressedPaths) : S \in {{}, {2, 3}}}
CompressedEnvs == {S \in SUBSET (1..NumCompressedPaths) : S \in {{}, {3, 5}}}

\* Requests the example HTTP server receives.
NumRequests == 2
Requests == 1..NumRequests

\* Signals the process receives; each runs shutdown() once.
NumSignals == 2
Signals == 1..NumSignals
SignalNames == {"SIGINT", "SIGTERM"}

\* What a request carries: req.url missing, a URL that new URL() cannot
\* parse against the base (such as "//"), or a URL with a path and a query.
Urls == {"none", "bad", "ok"}
Methods == {"GET", "POST"}
Pathnames == {"/decode", "/other"}
Vins == {"", "INVALID_VIN", "KM8K2CAB4PU001140"}

\* Results decoder.decode(vin) resolves with: a structurally invalid VIN
\* yields valid:false and no components.vehicle; a 17-character VIN yields a
\* vehicle when a pattern matches, valid or not, and none otherwise.
DecodeResults(vin) ==
    IF vin = "INVALID_VIN"
    THEN {[valid |-> FALSE, vehicle |-> FALSE]}
    ELSE {[valid |-> TRUE, vehicle |-> TRUE],
          [valid |-> FALSE, vehicle |-> TRUE],
          [valid |-> FALSE, vehicle |-> FALSE]}

NoResult == [valid |-> FALSE, vehicle |-> FALSE]

\* A request that has not arrived.
IdleRequest ==
    [pc |-> "idle", url |-> "none", method |-> "GET", pathname |-> "",
     vin |-> "", decodeCalls |-> 0, decoded |-> "none", result |-> NoResult,
     responses |-> 0, statusCode |-> 0, body |-> "none", conn |-> "none"]

\* A signal that has not arrived.
IdleShutdown == [pc |-> "idle", signal |-> "none"]

\* The server after "await createDecoder()" and server.listen().
HttpStart ==
    [reqs |-> [r \in Requests |-> IdleRequest], decoder |-> "open",
     server |-> "listening",
     shutdowns |-> [s \in Signals |-> IdleShutdown], closeCalls |-> 0,
     exited |-> FALSE]

VARIABLES
    http,                \* the example HTTP server: its requests, the decoder
    env,                 \* local candidates present, CORGI_* variables
    cacheDir,            \* CACHE_DIR exists
    cache,               \* file at CACHE_DB_PATH: "absent" | "partial" | "complete"
    gz,                  \* file at CACHE_DB_PATH + ".gz", same values
    calls,               \* the getDatabasePath calls
    writers,             \* per call: write stream of its copyFile/decompressDatabase
    downloadInProgress,  \* NULL, or the call that created the promise stored
    cycleOutcome,        \* per starting call: outcome of its promise
    dl                   \* the download cycle (downloadAndPrepareDatabase)

vars == <<http, env, cacheDir, cache, gz, calls, writers, downloadInProgress,
          cycleOutcome, dl>>

\* ----------------------------------------------------------------- helpers

Min(S) == CHOOSE x \in S : \A y \in S : x <= y

\* The last existing candidate instead of the first.
LastExisting(S) ==
    IF S = {} THEN 0 ELSE CHOOSE x \in S : \A y \in S : y <= x

\* First existing candidate in list order (the for-loops of getDatabasePath).
FirstExisting(S) == IF S = {} THEN 0 ELSE Min(S)

IdleCall ==
    [pc |-> "idle", forceFresh |-> FALSE, databasePath |-> "", result |-> "",
     err |-> "none", source |-> "none", srcIdx |-> 0, cyc |-> NULL,
     during |-> NULL, cacheAtStart |-> "absent", cacheAtSettle |-> "absent",
     group |-> FALSE, url |-> "", errUrl |-> ""]

IdleDl ==
    [pc |-> "idle", owner |-> NULL, promise |-> "none", file |-> "none",
     req |-> "none", redirectCount |-> 0, requests |-> 0, err |-> "none",
     w |-> "none", srcOk |-> FALSE, url |-> "", res |-> NoResponse,
     cacheAtStart |-> "absent"]

Settled(c) == calls[c].pc \in {"resolved", "rejected"}

\* A caller awaiting a promise that has settled is queued to resume.
Queued(c) ==
    /\ calls[c].pc = "awaitDownload"
    /\ cycleOutcome[calls[c].cyc] \in {"ok", "fail"}

Draining == \E c \in Calls : Queued(c)

\* downloadFile's promise was rejected inside its executor: the await of
\* downloadAndPrepareDatabase (line 253) is queued to throw.
ThrowPending == dl.pc = "download" /\ dl.promise = "rejected"

\* A continuation is queued: no I/O or network event is handled before it.
Busy == Draining \/ ThrowPending

\* Write streams on CACHE_DB_PATH that have opened the file and not ended.
LocalWriting == {c \in Calls : writers[c] = "writing"}
WritingCount == Cardinality(LocalWriting) + (IF dl.w = "writing" THEN 1 ELSE 0)

\* ---------------------------------------------------------------- Init

Init ==
    /\ http = HttpStart
    /\ env \in {r \in {[uncompressed |-> u, compressed |-> z, disable |-> d,
                        dbUrl |-> e.dbUrl, databaseUrl |-> e.databaseUrl] :
                           u \in UncompressedEnvs, z \in CompressedEnvs,
                           d \in BOOLEAN, e \in UrlEnvs} :
                   \* the URL variables are varied where the download step
                   \* is what prepares the database
                   (r.uncompressed # {} \/ r.compressed # {})
                       => (r.dbUrl = UNSET /\ r.databaseUrl = UNSET)}
    /\ cache \in {"absent", "complete"}
    /\ cacheDir = (cache # "absent")
    /\ gz = "absent"
    /\ calls = [c \in Calls |-> IdleCall]
    /\ writers = [c \in Calls |-> "none"]
    /\ downloadInProgress = NULL
    /\ cycleOutcome = [c \in Calls |-> "none"]
    /\ dl = IdleDl

\* ------------------------------------------------- getDatabasePath, start

\* "if (options.databasePath)"
ExplicitPath(path) == path # ""

\* The cache test with its negation of forceFresh lost, and with forceFresh
\* not consulted at all.
CacheHitInverted(ff) == ff /\ cache # "absent"
CacheHitIgnoresForce(ff) == cache # "absent"

\* "if (!options.forceFresh && existsSync(CACHE_DB_PATH))"
CacheHit(ff) == ~ff /\ cache # "absent"

\* 'if (process.env.CORGI_DISABLE_DB_DOWNLOAD === "1")', and the test never
\* matching the value.
DownloadDisabledNever == FALSE
DownloadDisabled == env.disable

\* Lines 158-161 with the two variables in the other order.
DownloadUrlReversed ==
    IF env.databaseUrl # UNSET THEN env.databaseUrl
    ELSE IF env.dbUrl # UNSET THEN env.dbUrl
    ELSE DEFAULT_DB_DOWNLOAD_URL

\* Lines 158-161: CORGI_DB_URL ?? CORGI_DATABASE_URL ?? default.
DownloadUrl ==
    IF env.dbUrl # UNSET THEN env.dbUrl
    ELSE IF env.databaseUrl # UNSET THEN env.databaseUrl
    ELSE DEFAULT_DB_DOWNLOAD_URL

\* Whether request(url) accepts the URL (line 294); it throws otherwise.
ValidUrl(url) == url # "not a url"

\* "downloadInProgress ??= ...": the right-hand side runs only on null.
ShouldStartCycleAlways == TRUE
ShouldStartCycle == downloadInProgress = NULL

\* ".finally(() => { downloadInProgress = null; })": the marker after the
\* callback has run, for a cycle that ended with `outcome`.
FinallyOnlyOnSuccess(outcome) ==
    IF outcome = "ok" THEN NULL ELSE downloadInProgress
FinallyCallback(outcome) == NULL

\* The promise of the cycle started by `owner` settles: the finally callback
\* runs, then the promise stored in the marker takes the outcome.
SettleCycle(owner, outcome) ==
    /\ cycleOutcome' = [cycleOutcome EXCEPT ![owner] = outcome]
    /\ downloadInProgress' = FinallyCallback(outcome)

\* The cycle in flight when a call starts (history, for the claims).
InFlight ==
    IF \E k \in Calls : cycleOutcome[k] = "pending"
    THEN CHOOSE k \in Calls : cycleOutcome[k] = "pending"
    ELSE NULL

\* Whether a call starting now is one of the calls single-flight is about:
\* no cache file, no local candidate, download allowed, no call settled yet.
InGroup(path) ==
    /\ ~ExplicitPath(path)
    /\ cache = "absent"
    /\ env.uncompressed = {} /\ env.compressed = {}
    /\ ~env.disable
    /\ \A k \in Calls : Settled(k) => ExplicitPath(calls[k].databasePath)

Started(c, path, ff) ==
    [IdleCall EXCEPT !.forceFresh = ff, !.databasePath = path,
                     !.during = InFlight, !.cacheAtStart = cache,
                     !.cacheAtSettle = cache, !.group = InGroup(path)]

\* The explicit path returned only after the cache directory is ensured.
ReturnExplicitAfterMkdir(c, path, ff) ==
    /\ calls' = [calls EXCEPT ![c] =
                    [Started(c, path, ff) EXCEPT !.pc = "resolved",
                         !.result = path, !.source = "explicit"]]
    /\ cacheDir' = TRUE
    /\ UNCHANGED <<http, env, cache, gz, writers, downloadInProgress,
                   cycleOutcome, dl>>

\* Lines 98-105: the explicit path is returned as given.
ReturnExplicit(c, path, ff) ==
    /\ calls' = [calls EXCEPT ![c] =
                    [Started(c, path, ff) EXCEPT !.pc = "resolved",
                         !.result = path, !.source = "explicit"]]
    /\ UNCHANGED <<http, env, cacheDir, cache, gz, writers, downloadInProgress,
                   cycleOutcome, dl>>

\* Lines 119-123: the cached file is returned when it exists.
ReturnCached(c, path, ff) ==
    /\ calls' = [calls EXCEPT ![c] =
                    [Started(c, path, ff) EXCEPT !.pc = "resolved",
                         !.result = CACHE_DB_PATH, !.source = "cache"]]
    /\ UNCHANGED <<http, env, cacheDir, cache, gz, writers, downloadInProgress,
                   cycleOutcome, dl>>

\* Lines 131-155: copyFile / decompressDatabase of the first local candidate.
\* Both create a write stream on CACHE_DB_PATH; the file is opened later.
BeginLocal(c, path, ff, kind, idx) ==
    /\ calls' = [calls EXCEPT ![c] =
                    [Started(c, path, ff) EXCEPT
                         !.pc = IF kind = "copy" THEN "awaitCopy"
                                                 ELSE "awaitDecompress",
                         !.source = kind, !.srcIdx = idx]]
    /\ writers' = [writers EXCEPT ![c] = "opening"]
    /\ cacheDir' = TRUE
    /\ UNCHANGED <<http, env, cache, gz, downloadInProgress, cycleOutcome, dl>>

\* Lines 163-170: download disabled.
RejectDisabled(c, path, ff) ==
    /\ calls' = [calls EXCEPT ![c] =
                    [Started(c, path, ff) EXCEPT !.pc = "rejected",
                         !.err = "disabled", !.url = DownloadUrl]]
    /\ cacheDir' = TRUE
    /\ UNCHANGED <<http, env, cache, gz, writers, downloadInProgress,
                   cycleOutcome, dl>>

\* Lines 177-185 with marker null: downloadAndPrepareDatabase runs up to its
\* first await.  downloadFile creates the write stream on the .gz path and
\* issues the first request; request() throws on a URL it cannot parse, which
\* rejects the promise from inside the executor, without cleanupAndReject.
\* The marker is set either way: calls made by the same task join the cycle.
\* The record of the previous cycle is replaced: a request an earlier
\* downloadFile left unanswered after a write-stream error is not followed
\* into the new cycle.
BeginCycle(c, path, ff) ==
    /\ calls' = [calls EXCEPT ![c] =
                    [Started(c, path, ff) EXCEPT !.pc = "awaitDownload",
                         !.source = "download", !.cyc = c,
                         !.url = DownloadUrl]]
    /\ cacheDir' = TRUE
    /\ dl' = IF ValidUrl(DownloadUrl)
             THEN [IdleDl EXCEPT !.pc = "download", !.owner = c,
                       !.promise = "pending", !.file = "opening",
                       !.req = "sent", !.requests = 1,
                       !.url = DownloadUrl, !.cacheAtStart = cache]
             ELSE [IdleDl EXCEPT !.pc = "download", !.owner = c,
                       !.promise = "rejected", !.file = "opening",
                       !.err = "invalidUrl",
                       !.url = DownloadUrl, !.cacheAtStart = cache]
    /\ cycleOutcome' = [cycleOutcome EXCEPT ![c] = "pending"]
    /\ downloadInProgress' = c
    /\ UNCHANGED <<http, env, cache, gz, writers>>

\* Lines 177-185 with marker set: await the promise already stored.
JoinCycle(c, path, ff) ==
    /\ calls' = [calls EXCEPT ![c] =
                    [Started(c, path, ff) EXCEPT !.pc = "awaitDownload",
                         !.source = "download", !.cyc = downloadInProgress,
                         !.url = DownloadUrl]]
    /\ cacheDir' = TRUE
    /\ UNCHANGED <<http, env, cache, gz, writers, downloadInProgress,
                   cycleOutcome, dl>>

\* getDatabasePath(options), from the call to its first await or return.
StartCall(c, path, ff) ==
    /\ calls[c].pc = "idle"
    /\ IF c = 1 THEN TRUE ELSE calls[c - 1].pc # "idle"
    /\ ~Draining
    /\ IF ExplicitPath(path) THEN ReturnExplicit(c, path, ff)
       ELSE IF CacheHit(ff) THEN ReturnCached(c, path, ff)
       ELSE IF env.uncompressed # {}
            THEN BeginLocal(c, path, ff, "copy", FirstExisting(env.uncompressed))
       ELSE IF env.compressed # {}
            THEN BeginLocal(c, path, ff, "decompress",
                            FirstExisting(env.compressed))
       ELSE IF DownloadDisabled THEN RejectDisabled(c, path, ff)
       ELSE IF ShouldStartCycle THEN BeginCycle(c, path, ff)
       ELSE JoinCycle(c, path, ff)

\* ------------------------------------- copyFile / decompressDatabase (local)

\* createWriteStream(destPath) opens with flags "w": the file is created or
\* truncated when the open completes.
LocalOpen(c) ==
    /\ ~Busy
    /\ writers[c] = "opening"
    /\ writers' = [writers EXCEPT ![c] = "writing"]
    /\ cache' = "partial"
    /\ UNCHANGED <<http, env, cacheDir, gz, calls, downloadInProgress,
                   cycleOutcome, dl>>

\* The content once a stream has written all of its data: complete, unless
\* another stream has the same file open, which may have truncated it since.
AfterFinish(others) ==
    IF others = 0 THEN {"complete"} ELSE {"partial", "complete"}

\* pipeline(...) resolves: the call returns CACHE_DB_PATH (lines 139-140,
\* 152-153).
LocalFinish(c) ==
    /\ ~Busy
    /\ writers[c] = "writing"
    /\ writers' = [writers EXCEPT ![c] = "none"]
    /\ \E content \in AfterFinish(WritingCount - 1) :
          /\ cache' = content
          /\ calls' = [calls EXCEPT ![c].pc = "resolved",
                                    ![c].result = CACHE_DB_PATH,
                                    ![c].cacheAtSettle = content]
    /\ UNCHANGED <<http, env, cacheDir, gz, downloadInProgress, cycleOutcome, dl>>

\* pipeline(...) rejects (read error, corrupt gzip data, write error):
\* copyFile/decompressDatabase rethrow and the outer catch of getDatabasePath
\* wraps the error (lines 196-199).  The destination is left as written.
LocalFail(c) ==
    /\ ~Busy
    /\ writers[c] = "writing"
    /\ writers' = [writers EXCEPT ![c] = "none"]
    /\ calls' = [calls EXCEPT ![c].pc = "rejected",
                              ![c].err = calls[c].source,
                              ![c].cacheAtSettle = cache]
    /\ UNCHANGED <<http, env, cacheDir, cache, gz, downloadInProgress,
                   cycleOutcome, dl>>

\* ------------------------------------------------------------ downloadFile

\* file.close() on the write stream of the .gz file: a stream still opening
\* completes its open (creating the file) and then closes.
CloseFile(f) ==
    CASE f = "opening" -> "closing"
      [] f = "open" -> "closed"
      [] OTHER -> f

\* cleanupAndReject followed by the decompression all the same, as if the
\* await of line 253 did not throw.
CleanupAndRejectThenDecompress(d, error) ==
    /\ gz' = "absent"
    /\ IF d.promise = "pending"
       THEN /\ dl' = [d EXCEPT !.file = CloseFile(d.file),
                               !.promise = "rejected", !.err = error,
                               !.pc = "decompress", !.w = "opening"]
            /\ UNCHANGED <<downloadInProgress, cycleOutcome>>
       ELSE /\ dl' = [d EXCEPT !.file = CloseFile(d.file)]
            /\ UNCHANGED <<downloadInProgress, cycleOutcome>>

\* cleanupAndReject(error): close the stream, unlink the .gz file, reject.
\* A rejection of the pending promise ends the await in
\* downloadAndPrepareDatabase (line 253) before its try block, so the cycle
\* fails without decompressing.  `d` is the cycle after the event's own changes.
CleanupAndReject(d, error) ==
    /\ gz' = "absent"
    /\ IF d.promise = "pending"
       THEN /\ dl' = [d EXCEPT !.file = CloseFile(d.file),
                               !.promise = "rejected", !.err = error,
                               !.pc = "idle"]
            /\ SettleCycle(d.owner, "fail")
       ELSE /\ dl' = [d EXCEPT !.file = CloseFile(d.file)]
            /\ UNCHANGED <<downloadInProgress, cycleOutcome>>

\* "await downloadFile(...)" (line 253) throws the rejection raised inside the
\* executor: the cycle fails before its try block, nothing is cleaned up.
AwaitDownloadThrows ==
    /\ ~Draining
    /\ ThrowPending
    /\ dl' = [dl EXCEPT !.pc = "idle"]
    /\ SettleCycle(dl.owner, "fail")
    /\ UNCHANGED <<http, env, cacheDir, cache, gz, calls, writers>>

\* The open of the .gz write stream completes: the file is created or
\* truncated; a stream closed meanwhile closes right after.
GzOpen ==
    /\ ~Busy
    /\ dl.file \in {"opening", "closing"}
    /\ gz' = "partial"
    /\ dl' = [dl EXCEPT !.file = IF dl.file = "opening" THEN "open"
                                                        ELSE "closed"]
    /\ UNCHANGED <<http, env, cacheDir, cache, calls, writers, downloadInProgress,
                   cycleOutcome>>

\* The open fails (permissions, no space): file.on("error") (lines 331-333).
\* The request is not aborted.
GzOpenFail ==
    /\ ~Busy
    /\ dl.file = "opening"
    /\ CleanupAndReject([dl EXCEPT !.file = "failed"], "fileError")
    /\ UNCHANGED <<http, env, cacheDir, cache, calls, writers>>

\* "if (redirectCount > 5)"
TooManyRedirectsOff(n) == n > MaxRedirects + 1
TooManyRedirects(n) == n > MaxRedirects

\* The redirect test without its Location part.
IsRedirectAny3xx(res) == res.status >= 300 /\ res.status < 400

\* Lines 295-300: a status in 300..399 with a Location header.
IsRedirect(res) ==
    /\ res.status # 0
    /\ res.status >= 300 /\ res.status < 400
    /\ res.location # "none"

\* A redirect (lines 295-305): doRequest is called again with
\* redirectCount + 1; it rejects beyond the bound, else issues the request.
\* request() throws on a URL it refuses; inside the response callback nothing
\* catches that, so the promise is left pending (and the exception ends the
\* process unless the host handles uncaught exceptions).
ServerRedirect(res) ==
    /\ ~Busy
    /\ dl.req = "sent" /\ IsRedirect(res)
    /\ LET n == dl.redirectCount + 1 IN
       IF TooManyRedirects(n)
       THEN CleanupAndReject([dl EXCEPT !.redirectCount = n, !.req = "done",
                                        !.res = res],
                             "tooManyRedirects")
       ELSE /\ dl' = IF res.location = "bad"
                     THEN [dl EXCEPT !.req = "threw", !.res = res,
                              !.err = IF dl.err = "none" THEN "uncaught"
                                      ELSE dl.err]
                     ELSE [dl EXCEPT !.redirectCount = n, !.req = "sent",
                              !.res = res,
                              !.requests = dl.requests + 1]
            /\ UNCHANGED <<gz, downloadInProgress, cycleOutcome>>
    /\ UNCHANGED <<http, env, cacheDir, cache, calls, writers>>

\* Any other response whose status is not 200, a 3xx without Location
\* included (lines 307-315).
ServerStatus(res) ==
    /\ ~Busy
    /\ dl.req = "sent" /\ ~IsRedirect(res) /\ res.status # 200
    /\ CleanupAndReject([dl EXCEPT !.req = "done", !.res = res],
                        "httpStatus")
    /\ UNCHANGED <<http, env, cacheDir, cache, calls, writers>>

\* A 200 response: res.pipe(file) (line 317).
Server200(res) ==
    /\ ~Busy
    /\ dl.req = "sent" /\ ~IsRedirect(res) /\ res.status = 200
    /\ dl' = [dl EXCEPT !.req = "body", !.res = res]
    /\ UNCHANGED <<http, env, cacheDir, cache, gz, calls, writers,
                   downloadInProgress, cycleOutcome>>

\* req.on("error") (lines 324-326): the request fails before a response.
ReqError ==
    /\ ~Busy
    /\ dl.req = "sent"
    /\ CleanupAndReject([dl EXCEPT !.req = "done"], "reqError")
    /\ UNCHANGED <<http, env, cacheDir, cache, calls, writers>>

\* The server never answers the request, or the body of a 200 response stalls
\* or is aborted before its end: no handler of downloadFile runs again.
ServerHang ==
    /\ ~Busy
    /\ dl.req \in {"sent", "body"}
    /\ dl' = [dl EXCEPT !.req = "hung"]
    /\ UNCHANGED <<http, env, cacheDir, cache, gz, calls, writers,
                   downloadInProgress, cycleOutcome>>

\* A write of the body to the .gz stream fails: file.on("error").
BodyWriteError ==
    /\ ~Busy
    /\ dl.req = "body" /\ dl.file = "open"
    /\ CleanupAndReject([dl EXCEPT !.req = "done", !.file = "failed"],
                        "fileError")
    /\ UNCHANGED <<http, env, cacheDir, cache, calls, writers>>

\* The body has been written: file.on("finish") closes the stream and
\* resolves (lines 318-321); downloadAndPrepareDatabase goes on to
\* decompressDatabase (line 256), which creates the write stream on the
\* cache path.  A stream that has failed never finishes.
BodyEnd ==
    /\ ~Busy
    /\ dl.req = "body" /\ dl.file = "open"
    /\ gz' = "complete"
    /\ dl' = [dl EXCEPT !.req = "done", !.file = "closed",
                        !.promise = IF dl.promise = "pending" THEN "resolved"
                                    ELSE dl.promise,
                        !.pc = IF dl.promise = "pending" THEN "decompress"
                               ELSE dl.pc,
                        !.w = IF dl.promise = "pending" THEN "opening"
                              ELSE dl.w]
    /\ UNCHANGED <<http, env, cacheDir, cache, calls, writers, downloadInProgress,
                   cycleOutcome>>

\* ----------------------------------- downloadAndPrepareDatabase, lines 255-266

\* The streams of decompressDatabase open: the .gz file for reading, the
\* cache file for writing (created or truncated).
CycleDecompressOpen ==
    /\ ~Busy
    /\ dl.pc = "decompress" /\ dl.w = "opening"
    /\ cache' = "partial"
    /\ dl' = [dl EXCEPT !.w = "writing", !.srcOk = (gz = "complete")]
    /\ UNCHANGED <<http, env, cacheDir, gz, calls, writers, downloadInProgress,
                   cycleOutcome>>

\* "finally { unlinkSync(compressedDestination) }"
UnlinkCompressed(outcome) == "absent"

\* Decompression ends; the finally block unlinks the .gz file and the cycle's
\* promise settles.
CycleDecompressEnd(outcome) ==
    /\ ~Busy
    /\ dl.pc = "decompress" /\ dl.w = "writing"
    /\ outcome = "ok" => dl.srcOk
    /\ cache' \in (IF outcome = "ok" THEN AfterFinish(WritingCount - 1)
                                     ELSE {cache})
    /\ gz' = UnlinkCompressed(outcome)
    /\ dl' = [dl EXCEPT !.pc = "idle", !.w = "none",
                        !.err = IF outcome = "ok" THEN "none" ELSE "decompress"]
    /\ SettleCycle(dl.owner, outcome)
    /\ UNCHANGED <<http, env, cacheDir, calls, writers>>

\* ----------------------------------------- getDatabasePath, lines 185-199

\* Lines 187-195: "Failed to download database automatically from
\* ${downloadUrl}", whatever the cause; the outer catch (lines 196-199) wraps
\* it and keeps the message.
DownloadError(url) == [err |-> "download", errUrl |-> url]

\* "await downloadInProgress" ends: return CACHE_DB_PATH, or the inner catch
\* throws the download error, which the outer catch wraps.
Resume(c) ==
    /\ Queued(c)
    /\ calls' = [calls EXCEPT ![c] =
          IF cycleOutcome[calls[c].cyc] = "ok"
          THEN [calls[c] EXCEPT !.pc = "resolved", !.result = CACHE_DB_PATH,
                                !.cacheAtSettle = cache]
          ELSE [calls[c] EXCEPT !.pc = "rejected",
                                !.err = DownloadError(calls[c].url).err,
                                !.errUrl = DownloadError(calls[c].url).errUrl,
                                !.cacheAtSettle = cache]]
    /\ UNCHANGED <<http, env, cacheDir, cache, gz, writers, downloadInProgress,
                   cycleOutcome, dl>>

\* ------------------------------------------------------------ specification

Next ==
    \/ \E c \in Calls, path \in Paths, ff \in BOOLEAN : StartCall(c, path, ff)
    \/ \E c \in Calls : LocalOpen(c)
    \/ \E c \in Calls : LocalFinish(c)
    \/ \E c \in Calls : LocalFail(c)
    \/ AwaitDownloadThrows
    \/ GzOpen
    \/ GzOpenFail
    \/ \E res \in Responses : ServerRedirect(res)
    \/ \E res \in Responses : ServerStatus(res)
    \/ \E res \in Responses : Server200(res)
    \/ ReqError
    \/ ServerHang
    \/ BodyWriteError
    \/ BodyEnd
    \/ CycleDecompressOpen
    \/ \E outcome \in {"ok", "fail"} : CycleDecompressEnd(outcome)
    \/ \E c \in Calls : Resume(c)

Spec == Init /\ [][Next]_vars

\* The event loop runs every task that is ready; whether the server answers
\* is a choice of the server (ServerHang), not of the scheduler.
FairSpec == Spec /\ WF_vars(Next)

\* ------------------------------------------------- examples/http-endpoint.js

dbVars == <<env, cacheDir, cache, gz, calls, writers, downloadInProgress,
            cycleOutcome, dl>>

\* The process has neither exited nor died of an unhandled rejection.
Running == ~http.exited /\ http.server # "crashed"

\* res.statusCode = code; res.end(body): one more response on the request.
Respond(q, code, body) ==
    [q EXCEPT !.pc = "done", !.responses = q.responses + 1,
              !.statusCode = code, !.body = body]

\* The handler up to its first await (lines 12-38).  new URL() at line 19 is
\* outside the try block: when it throws, the async handler rejects and no
\* response is written; the unhandled rejection ends the process, or is only
\* reported, as the runtime is configured.
Handler(r, url, method, pathname, vin) ==
    /\ ~http.exited
    /\ http.server = "listening"
    /\ http.reqs[r].pc = "idle"
    /\ IF r = 1 THEN TRUE ELSE http.reqs[r - 1].pc # "idle"
    /\ LET q == [IdleRequest EXCEPT !.url = url, !.method = method,
                     !.conn = "open",
                     !.pathname = IF url = "ok" THEN pathname ELSE "",
                     !.vin = IF url = "ok" THEN vin ELSE ""]
       IN  \E after \in IF url = "bad" THEN {"listening", "crashed"}
                                       ELSE {"listening"} :
             http' = [http EXCEPT !.server = after, !.reqs[r] =
                IF q.url = "none" THEN Respond(q, 400, "error")
                ELSE IF q.url = "bad" THEN [q EXCEPT !.pc = "threw"]
                ELSE IF q.method # "GET" \/ q.pathname # "/decode"
                     THEN Respond(q, 404, "error")
                ELSE IF q.vin = "" THEN Respond(q, 400, "error")
                ELSE [q EXCEPT !.pc = "awaitDecode", !.decodeCalls = 1]]
    /\ UNCHANGED dbVars

\* Building the response body reads result.components.vehicle.cab without a
\* guard (line 47).
BodyThrows(result) == ~result.vehicle

\* decoder.decode(vin) resolves (lines 38-59).  res.statusCode = 200 is set
\* first; a TypeError while the body is built goes to the catch block, which
\* answers 500 (lines 60-65).
DecodeResolves(r, result) ==
    /\ Running
    /\ http.reqs[r].pc = "awaitDecode"
    /\ result \in DecodeResults(http.reqs[r].vin)
    /\ LET q == [http.reqs[r] EXCEPT !.decoded = "resolved",
                                     !.result = result]
       IN  http' = [http EXCEPT !.reqs[r] =
              IF BodyThrows(result) THEN Respond(q, 500, "error")
                                    ELSE Respond(q, 200, "result")]
    /\ UNCHANGED dbVars

\* decoder.decode(vin) rejects: the catch block answers 500 (lines 60-65).
DecodeRejects(r) ==
    /\ Running
    /\ http.reqs[r].pc = "awaitDecode"
    /\ http' = [http EXCEPT !.reqs[r] =
          Respond([http.reqs[r] EXCEPT !.decoded = "rejected"], 500, "error")]
    /\ UNCHANGED dbVars

\* The connection of an answered request ends.
ConnectionEnds(r) ==
    /\ Running
    /\ http.reqs[r].conn = "open" /\ http.reqs[r].pc = "done"
    /\ http' = [http EXCEPT !.reqs[r].conn = "closed"]
    /\ UNCHANGED dbVars

\* The client gives up its connection while the handler has not answered.
ClientAborts(r) ==
    /\ Running
    /\ http.reqs[r].conn = "open"
    /\ http.reqs[r].pc \in {"awaitDecode", "threw"}
    /\ http' = [http EXCEPT !.reqs[r].conn = "closed"]
    /\ UNCHANGED dbVars

\* A signal arrives: shutdown() up to its first await (lines 72-74).
\* server.close(resolve) stops the listening server and registers resolve
\* for the server's "close" event; on a server already stopped it registers
\* it all the same.
shutdown(s, signal) ==
    /\ Running
    /\ http.shutdowns[s].pc = "idle"
    /\ IF s = 1 THEN TRUE ELSE http.shutdowns[s - 1].pc # "idle"
    /\ http' = [http EXCEPT
                    !.shutdowns[s] = [pc |-> "awaitClose", signal |-> signal],
                    !.server = IF http.server = "listening" THEN "closing"
                                                            ELSE http.server]
    /\ UNCHANGED dbVars

AwaitingClose == {s \in Signals : http.shutdowns[s].pc = "awaitClose"}

\* The stopped server has no connection left and emits "close": every
\* registered resolve runs, and every shutdown() waiting at line 74 goes on
\* to call decoder.close() (line 75) and waits for it.
ServerCloseEvent ==
    /\ Running
    /\ http.server \in {"closing", "closed"}
    /\ AwaitingClose # {}
    /\ \A r \in Requests : http.reqs[r].conn # "open"
    /\ http' = [http EXCEPT
                    !.server = "closed",
                    !.decoder = "closing",
                    !.closeCalls = http.closeCalls + Cardinality(AwaitingClose),
                    !.shutdowns = [s \in Signals |->
                        IF s \in AwaitingClose
                        THEN [http.shutdowns[s] EXCEPT !.pc = "awaitDecoderClose"]
                        ELSE http.shutdowns[s]]]
    /\ UNCHANGED dbVars

\* decoder.close() has resolved: process.exit(0) (line 76).
ProcessExit(s) ==
    /\ Running
    /\ http.shutdowns[s].pc = "awaitDecoderClose"
    /\ http' = [http EXCEPT !.shutdowns[s].pc = "exited",
                            !.decoder = "closed", !.exited = TRUE]
    /\ UNCHANGED dbVars

\* The server runs with the database in place (createDecoder has returned).
HttpInit ==
    /\ Init
    /\ cache = "complete"
    /\ env = [uncompressed |-> {}, compressed |-> {}, disable |-> FALSE,
              dbUrl |-> UNSET, databaseUrl |-> UNSET]

HttpNext ==
    \/ \E r \in Requests, url \in Urls, method \in Methods,
          pathname \in Pathnames, vin \in Vins :
          Handler(r, url, method, pathname, vin)
    \/ \E r \in Requests, result \in DecodeResults("") : DecodeResolves(r, result)
    \/ \E r \in Requests : DecodeRejects(r)
    \/ \E r \in Requests : ConnectionEnds(r)
    \/ \E r \in Requests : ClientAborts(r)
    \/ \E s \in Signals, signal \in SignalNames : shutdown(s, signal)
    \/ ServerCloseEvent
    \/ \E s \in Signals : ProcessExit(s)

HttpSpec == HttpInit /\ [][HttpNext]_vars

\* ------------------------------------------------------------------ claims

StartedCalls == {c \in Calls : calls[c].pc # "idle"}
ImplicitCalls == {c \in StartedCalls : ~ExplicitPath(calls[c].databasePath)}
CyclesStarted == {k \in Calls : cycleOutcome[k] # "none"}
CyclesInFlight == {k \in Calls : cycleOutcome[k] = "pending"}

\* C1: single-flight download.  When every call without an explicit path was
\* issued with no cache file, no local candidate, download allowed and before
\* any of them settled, exactly one download cycle has been started, whatever
\* the calls' forceFresh; and two cycles are never in flight together.
C1_SingleFlight ==
    /\ Cardinality(CyclesInFlight) <= 1
    /\ (ImplicitCalls # {} /\ \A c \in ImplicitCalls : calls[c].group)
          => Cardinality(CyclesStarted) = 1

\* Every call has joined one cycle still in flight, with both forceFresh values.
C1_Witness ==
    /\ \A c \in Calls : calls[c].group /\ calls[c].pc = "awaitDownload"
    /\ calls[1].forceFresh # calls[2].forceFresh
    /\ Cardinality(CyclesStarted) = 1
    /\ Cardinality(CyclesInFlight) = 1

\* C2: shared outcome.  A call without explicit path and without forceFresh
\* that started while a cycle was in flight resolves only if that cycle
\* succeeds and rejects if it fails.  Stated for the calls that found no
\* complete cache file when they started, the case the claim singles out: a
\* call that starts once the cycle has begun writing the cache file.
C2_SharedOutcome ==
    \A c \in ImplicitCalls :
        (/\ ~calls[c].forceFresh
         /\ calls[c].during # NULL
         /\ calls[c].cacheAtStart # "complete"
         /\ Settled(c)
         /\ cycleOutcome[calls[c].during] \in {"ok", "fail"})
        => (calls[c].pc = "resolved" <=> cycleOutcome[calls[c].during] = "ok")

\* C3: only one preparation at a time.  Never do two copy, decompression or
\* download preparations have the cache file open for writing together.
C3_OnePreparation == WritingCount <= 1

\* C4: no corrupted cache after failure.  When a call rejects, the cache path
\* does not exist or holds a complete file, never a partly written one.
C4_NoCorruptCache ==
    \A c \in ImplicitCalls :
        calls[c].pc = "rejected"
            => calls[c].cacheAtSettle \in {"absent", "complete"}

\* C5: returned path is ready.  Whenever a call resolves with the cache path,
\* the file there is complete at that moment.
C5_ReturnedReady ==
    \A c \in ImplicitCalls :
        (calls[c].pc = "resolved" /\ calls[c].result = CACHE_DB_PATH)
            => calls[c].cacheAtSettle = "complete"

\* C6: the in-flight marker is cleared on completion.  The marker is non-null
\* only while its cycle is running; it is null when a caller awaiting the
\* cycle resumes; and a call that reaches the download step when no cycle is
\* running starts a new cycle of its own.
C6_MarkerCleared ==
    [][/\ downloadInProgress' # NULL
            => cycleOutcome'[downloadInProgress'] = "pending"
       /\ \A c \in Calls :
            /\ (calls[c].pc = "awaitDownload" /\ calls'[c].pc # "awaitDownload")
                  => downloadInProgress = NULL /\ downloadInProgress' = NULL
            /\ (/\ calls[c].pc = "idle"
                /\ calls'[c].pc = "awaitDownload"
                /\ CyclesInFlight = {})
                  => /\ calls'[c].cyc = c
                     /\ cycleOutcome[c] = "none"
                     /\ cycleOutcome'[c] # "none"]_vars

\* A forceFresh call has started a new cycle after an earlier cycle failed and
\* after another succeeded.
C6_Witness ==
    \E a, b, c \in Calls :
        /\ cycleOutcome[a] = "fail" /\ calls[a].pc = "rejected"
        /\ cycleOutcome[b] = "ok" /\ calls[b].pc = "resolved"
        /\ cycleOutcome[c] = "pending" /\ calls[c].forceFresh
        /\ downloadInProgress = c

\* C7: redirect bound.  One downloadFile call issues at most 6 requests and
\* follows at most 5 redirects; the too-many-redirects error is raised exactly
\* at the 6th consecutive redirect; up to 5 redirects never raise it.
C7_RedirectBound ==
    /\ dl.requests <= 6
    /\ dl.requests > 0 => dl.redirectCount <= dl.requests
    /\ dl.err = "tooManyRedirects"
          => dl.redirectCount = 6 /\ dl.requests = 6 /\ dl.promise = "rejected"
    /\ dl.redirectCount = 6 => dl.promise = "rejected" /\ dl.req = "done"
    /\ (dl.redirectCount <= 5 /\ dl.req = "body" /\ dl.err = "none")
          => dl.promise = "pending"

\* A source that redirected 5 times and then answered 200 has been downloaded.
C7_Witness ==
    /\ dl.redirectCount = 5 /\ dl.requests = 6
    /\ dl.promise = "resolved" /\ gz = "complete"

\* C8: no unbounded hang.  Every call that has started eventually settles.
C8_EventuallySettles ==
    \A c \in Calls : [](calls[c].pc # "idle" => <>Settled(c))

\* C9: the temporary compressed file is removed on every exit path.  Once a
\* cycle has settled (and no other is running) after success, decompression
\* failure, request error, HTTP status, redirect limit or write-stream error,
\* the .gz file does not exist.
C9_GzRemoved ==
    (/\ CyclesInFlight = {}
     /\ dl.owner # NULL
     /\ cycleOutcome[dl.owner] \in {"ok", "fail"}
     /\ dl.err # "invalidUrl")
        => gz = "absent"

\* C10: an explicit path is returned unchecked.  A call with a non-empty
\* databasePath resolves at once with that string and changes nothing else:
\* not the cache directory, the cache file, the .gz file, any stream, the
\* marker or a cycle.
C10_ExplicitUnchecked ==
    [][\A c \in Calls :
          (/\ calls[c].pc = "idle"
           /\ calls'[c].pc # "idle"
           /\ calls'[c].databasePath # "")
          => /\ calls'[c].pc = "resolved"
             /\ calls'[c].result = calls'[c].databasePath
             /\ UNCHANGED <<http, env, cacheDir, cache, gz, writers,
                            downloadInProgress, cycleOutcome, dl>>]_vars

\* A forceFresh call with an explicit path resolved while a download cycle was
\* in flight and no cache file existed.
C10_Witness ==
    \E c \in Calls :
        /\ calls[c].pc = "resolved"
        /\ calls[c].result = "/data/custom.db"
        /\ calls[c].forceFresh
        /\ calls[c].during # NULL
        /\ downloadInProgress = calls[c].during
        /\ cache = "absent"

\* A call that starts in this step: its position before and after.
Starts(c) == calls[c].pc = "idle" /\ calls'[c].pc # "idle"
Implicit(c) == ~ExplicitPath(calls'[c].databasePath)
NoLocalCandidate == env.uncompressed = {} /\ env.compressed = {}

\* C11: a cache hit is idempotent.  A call without explicit path and without
\* forceFresh made when the cache file exists resolves at once with the cache
\* path and changes neither the cache file nor anything else (no copy, no
\* decompression, no download); and the cache file, once a call has resolved
\* with its path, stays in place for the calls that follow.
C11_CacheHitIdempotent ==
    [][/\ \A c \in Calls :
            (Starts(c) /\ Implicit(c) /\ ~calls'[c].forceFresh
                       /\ cache # "absent")
            => /\ calls'[c].pc = "resolved"
               /\ calls'[c].result = CACHE_DB_PATH
               /\ UNCHANGED <<http, env, cacheDir, cache, gz, writers,
                              downloadInProgress, cycleOutcome, dl>>
       /\ (\E c \in Calls : /\ calls[c].pc = "resolved"
                            /\ calls[c].result = CACHE_DB_PATH)
            => cache' # "absent"]_vars

\* After a call that prepared the cache from a local file, two more calls
\* were answered from the cache.
C11_Witness ==
    \E a, b, c \in Calls :
        /\ b # c
        /\ calls[a].source = "copy" /\ calls[a].pc = "resolved"
        /\ calls[b].source = "cache" /\ calls[b].cacheAtStart = "complete"
        /\ calls[c].source = "cache" /\ calls[c].cacheAtStart = "complete"
        /\ calls[b].result = CACHE_DB_PATH /\ calls[c].result = CACHE_DB_PATH

\* C12: forceFresh replaces the cache.  A forceFresh call without explicit
\* path never resolves in the step that starts it; it resolves only when its
\* own copy or decompression has finished writing the cache path, or when the
\* download cycle it awaited has succeeded; with no local candidate and
\* download disabled it rejects.
C12_ForceFreshPrepares ==
    [][\A c \in Calls :
          /\ (Starts(c) /\ Implicit(c) /\ calls'[c].forceFresh)
                => /\ calls'[c].pc # "resolved"
                   /\ (NoLocalCandidate /\ env.disable)
                         => calls'[c].pc = "rejected"
          /\ (/\ calls[c].pc # "resolved"
              /\ calls'[c].pc = "resolved"
              /\ Implicit(c) /\ calls'[c].forceFresh)
                => \/ /\ calls[c].pc \in {"awaitCopy", "awaitDecompress"}
                      /\ writers[c] = "writing" /\ writers'[c] = "none"
                      /\ cache' # "absent"
                   \/ /\ calls[c].pc = "awaitDownload"
                      /\ cycleOutcome[calls[c].cyc] = "ok"
                      /\ cache # "absent"]_vars

\* A forceFresh call made over a complete cache file resolved after the
\* download cycle of another call, which it joined, had succeeded.
C12_Witness ==
    \E c \in Calls :
        /\ calls[c].forceFresh /\ calls[c].pc = "resolved"
        /\ calls[c].result = CACHE_DB_PATH
        /\ calls[c].source = "download"
        /\ calls[c].cyc # c
        /\ calls[c].cacheAtStart # "absent"

\* C13: download disabled.  A call that reaches the download step with
\* CORGI_DISABLE_DB_DOWNLOAD = "1" rejects with the provide-a-databasePath
\* error, issues no request, finds and leaves the marker null and creates
\* neither the cache file nor the .gz file; with a local candidate the flag
\* changes nothing: the call copies or decompresses the local file.
C13_DownloadDisabled ==
    [][\A c \in Calls :
          (Starts(c) /\ Implicit(c) /\ env.disable
                     /\ ~(~calls'[c].forceFresh /\ cache # "absent"))
          => IF NoLocalCandidate
             THEN /\ calls'[c].pc = "rejected"
                  /\ calls'[c].err = "disabled"
                  /\ downloadInProgress = NULL /\ downloadInProgress' = NULL
                  /\ dl'.requests = 0 /\ dl'.file = "none"
                  /\ UNCHANGED <<cache, gz, writers, cycleOutcome, dl>>
             ELSE /\ calls'[c].pc \in {"awaitCopy", "awaitDecompress"}
                  /\ writers'[c] = "opening"]_vars

\* With download disabled, one call was rejected for lack of any source (no
\* cache file, no .gz file created).
C13_Witness ==
    \E c \in Calls :
        /\ calls[c].pc = "rejected" /\ calls[c].err = "disabled"
        /\ calls[c].forceFresh
        /\ cache = "absent" /\ gz = "absent" /\ cacheDir

\* C14: source priority.  A call that prepares the cache copies the first
\* existing uncompressed candidate; only when there is none it decompresses
\* the first existing compressed candidate; only when there is none either
\* it downloads.
C14_SourcePriority ==
    \A c \in StartedCalls :
        /\ calls[c].source = "copy"
              => /\ calls[c].srcIdx \in env.uncompressed
                 /\ \A i \in env.uncompressed : calls[c].srcIdx <= i
        /\ calls[c].source = "decompress"
              => /\ env.uncompressed = {}
                 /\ calls[c].srcIdx \in env.compressed
                 /\ \A i \in env.compressed : calls[c].srcIdx <= i
        /\ (calls[c].source = "download" \/ calls[c].err = "disabled")
              => NoLocalCandidate
        /\ calls[c].source \in {"copy", "decompress"}
              => cycleOutcome[c] = "none" /\ calls[c].cyc = NULL

\* With both kinds of candidate present, a call copied the first uncompressed
\* one and resolved.
C14_Witness ==
    \E c \in Calls :
        /\ calls[c].source = "copy" /\ calls[c].srcIdx = 2
        /\ env.uncompressed = {2, 3} /\ env.compressed = {3, 5}
        /\ calls[c].pc = "resolved"

\* C18: a failed download never touches the cache file.  Once downloadFile
\* has rejected (a request error, a status other than 200, too many
\* redirects, a write-stream error, a URL request() refuses), the cycle does
\* not decompress, and the file at the cache path is what it was when the
\* cycle started.
C18_FailedDownloadKeepsCache ==
    dl.promise = "rejected" =>
        /\ dl.w = "none"
        /\ dl.pc # "decompress"
        /\ cache = dl.cacheAtStart

\* A forceFresh cycle over an existing cache file failed with an HTTP status
\* and the file is still there.
C18_Witness ==
    /\ dl.promise = "rejected"
    /\ dl.err = "httpStatus"
    /\ dl.cacheAtStart = "complete"
    /\ calls[dl.owner].forceFresh
    /\ cache = "complete"

\* C17: download URL precedence.  A call that reaches the download step
\* selects CORGI_DB_URL when it is set, otherwise CORGI_DATABASE_URL when it
\* is set, otherwise the default release URL; a call that ends before that
\* step (explicit path, cache hit, local copy or decompression) selects
\* nothing.  The cycle a call starts requests the selected URL, and the
\* download error a call reports names the URL that call selected.
C17_UrlPrecedence ==
    LET selected ==
            CASE env.dbUrl # UNSET -> env.dbUrl
              [] env.dbUrl = UNSET /\ env.databaseUrl # UNSET -> env.databaseUrl
              [] OTHER -> DEFAULT_DB_DOWNLOAD_URL
    IN  \A c \in Calls :
            /\ calls[c].url =
                   IF calls[c].source = "download" \/ calls[c].err = "disabled"
                   THEN selected ELSE ""
            /\ calls[c].err = "download" =>
                   /\ calls[c].source = "download"
                   /\ calls[c].errUrl = selected
            /\ (dl.owner = c /\ calls[c].pc # "idle") => dl.url = selected

\* With both variables set, a call was rejected with the download error
\* naming the value of CORGI_DB_URL.
C17_Witness ==
    \E c \in Calls :
        /\ env.dbUrl # UNSET /\ env.databaseUrl # UNSET
        /\ env.dbUrl # env.databaseUrl
        /\ calls[c].pc = "rejected" /\ calls[c].err = "download"
        /\ calls[c].errUrl = env.dbUrl
        /\ dl.url = env.dbUrl

\* C19: response classification in downloadFile.  Within a cycle another
\* request is issued only on a response whose status is in 300..399 and that
\* carries a Location header.  A response with any other status than 200, a
\* 3xx without Location included, leaves the promise rejected (with the
\* HTTP-status error when it was still pending) and the request finished,
\* for good.  The promise settles at most once, and it resolves only on the
\* end of the body of a 200 response, with the .gz file complete.
C19_ResponseClassification ==
    [][LET redirect(res) == res.status \in 300..399 /\ res.location # "none"
           refused(res) == res.status \notin {0, 200} /\ ~redirect(res)
       IN  /\ refused(dl'.res) =>
                  /\ dl'.promise = "rejected"
                  /\ dl'.req = "done"
           /\ dl'.promise = "resolved" =>
                  /\ dl'.res.status = 200
                  /\ dl'.req = "done"
           /\ (dl'.owner = dl.owner /\ dl'.requests > dl.requests) =>
                  redirect(dl'.res)
           /\ (dl.req = "sent" /\ refused(dl'.res)) =>
                  /\ dl'.requests = dl.requests
                  /\ dl.promise = "pending" => dl'.err = "httpStatus"
           /\ (dl'.owner = dl.owner /\ dl.promise \in {"resolved", "rejected"}) =>
                  dl'.promise = dl.promise
           /\ (dl.promise = "pending" /\ dl'.promise = "resolved") =>
                  /\ dl.req = "body" /\ dl'.res.status = 200
                  /\ gz' = "complete"]_vars

\* A 3xx response without Location ended a download after one followed
\* redirect: two requests were made and the HTTP-status error was raised.
C19_Witness ==
    /\ dl.res = [status |-> 304, location |-> "none"]
    /\ dl.requests = 2
    /\ dl.promise = "rejected" /\ dl.err = "httpStatus"

\* C15: download failures surface as one error naming the URL.  A caller of
\* a failed cycle is rejected with the download error naming the URL it
\* selected and with no other error, and every failure inside a cycle fails
\* the cycle, so that its callers get that error: none escapes past them.
C15_FailuresSurface ==
    /\ \A c \in Calls :
           (calls[c].source = "download" /\ Settled(c)
                /\ cycleOutcome[calls[c].cyc] = "fail") =>
               /\ calls[c].pc = "rejected"
               /\ calls[c].err = "download"
               /\ calls[c].errUrl = calls[c].url
    /\ (dl.err # "none" /\ dl.promise # "resolved") =>
           \/ ThrowPending
           \/ cycleOutcome[dl.owner] = "fail"

\* C16: an invalid VIN is distinguishable from a system failure through the
\* HTTP endpoint.  A GET /decode request whose decode resolved with
\* valid:false and no components.vehicle is answered 200 with the result as
\* body, and a 500 answer means that decode rejected.
C16_InvalidVinIs200 ==
    \A r \in Requests :
        LET q == http.reqs[r] IN
        /\ (q.decoded = "resolved" /\ ~q.result.valid /\ ~q.result.vehicle) =>
               /\ q.statusCode = 200
               /\ q.body = "result"
        /\ q.statusCode = 500 => q.decoded = "rejected"

\* C20: HTTP endpoint status mapping.  A request the handler is done with
\* has exactly one response: 400 without a URL or without vin on GET /decode,
\* 404 for another method or path, without a decode call; decode is called at
\* most once and only for GET /decode with a vin; 500 follows a rejected
\* decode and 200 a resolved one.
C20_StatusMapping ==
    \A r \in Requests :
        LET q == http.reqs[r] IN
        /\ q.decodeCalls <= 1
        /\ q.decodeCalls = 1 =>
               (q.method = "GET" /\ q.pathname = "/decode" /\ q.vin # "")
        /\ q.responses <= 1
        /\ q.pc \notin {"idle", "awaitDecode"} =>
               /\ q.responses = 1
               /\ q.url = "none" => q.statusCode = 400
               /\ (q.url = "ok" /\ (q.method # "GET" \/ q.pathname # "/decode")) =>
                      (q.statusCode = 404 /\ q.decodeCalls = 0)
               /\ (q.method = "GET" /\ q.pathname = "/decode" /\ q.vin = "") =>
                      q.statusCode = 400
               /\ q.decoded = "rejected" => q.statusCode = 500
               /\ q.decoded = "resolved" => q.statusCode = 200

\* C21: shutdown ordering in the HTTP example.  Whatever signals arrive,
\* decoder.close() is called only once the server has finished closing,
\* never while a request handler is still awaiting decoder.decode, and at
\* most once before the process exits.
C21_ShutdownOrdering ==
    [][http'.closeCalls > http.closeCalls =>
          /\ http'.server = "closed"
          /\ \A r \in Requests : http'.reqs[r].pc # "awaitDecode"
          /\ http'.closeCalls <= 1]_vars

====
